---- MODULE Spec2Model ----
(***************************************************************************)
(* XFDF importer: the annotation parser and the document reconciler of     *)
(* src/main.ts, and the reconciler of its earlier variant                  *)
(* src/unnamed/part_000.                                                   *)
(*                                                                         *)
(* A JavaScript string is a sequence of one-character strings.  A run of   *)
(* characters that no pattern of the program can split (letters and        *)
(* punctuation other than space, tab, newline, digits and the characters   *)
(* of the patterns  < ! - > # [ ] ( ) | & ;  ) may be written as one       *)
(* element, e.g. "pxceLink".  The non-ASCII characters of the rendered     *)
(* link are written by name: "CHAKANZHUSHI" is the placeholder text        *)
(* U+67E5 U+770B U+6CE8 U+91CA, "FWCOLON" is U+FF1A, "DI" is U+7B2C and    *)
(* "YE" is U+9875.                                                         *)
(***************************************************************************)
EXTENDS Integers, Sequences, FiniteSets, TLC

(***************************************************************************)
(* String primitives of the JavaScript runtime.                            *)
(***************************************************************************)

\* The characters \s matches and String.prototype.trim strips.
WhiteSpace == {" ", "\t", "\n"}

Digit == {"0", "1", "2", "3", "4", "5", "6", "7", "8", "9"}

IsSpace(c) == c \in WhiteSpace

\* s.startsWith(pat, i - 1): pat occurs in s at the 1-based position i.
MatchesAt(s, i, pat) ==
    /\ i >= 1
    /\ i + Len(pat) - 1 <= Len(s)
    /\ \A k \in 1..Len(pat) : s[i + k - 1] = pat[k]

\* s.includes(pat)
Includes(s, pat) == \E i \in 1..(Len(s) + 1) : MatchesAt(s, i, pat)

\* The least element of a non-empty set of integers.
Least(S) == CHOOSE x \in S : \A y \in S : x <= y

Greatest(S) == CHOOSE x \in S : \A y \in S : y <= x

\* s.indexOf(pat) as a 1-based position, 0 when pat does not occur.
IndexOf(s, pat) ==
    LET hits == {i \in 1..(Len(s) + 1) : MatchesAt(s, i, pat)}
    IN  IF hits = {} THEN 0 ELSE Least(hits)

\* s.slice(i - 1): the suffix of s from the 1-based position i.
From(s, i) == IF i > Len(s) THEN << >> ELSE SubSeq(s, i, Len(s))

\* The length of the longest run of characters of `class` that s has from
\* position i on, and of the one that ends right before position i.
RECURSIVE RunLength(_, _, _)
RunLength(s, i, class) ==
    IF i <= Len(s) /\ s[i] \in class THEN 1 + RunLength(s, i + 1, class) ELSE 0

RECURSIVE RunLengthBefore(_, _, _)
RunLengthBefore(s, i, class) ==
    IF i > 1 /\ s[i - 1] \in class THEN 1 + RunLengthBefore(s, i - 1, class) ELSE 0

\* s.trim()
Trim(s) ==
    LET lead == RunLength(s, 1, WhiteSpace)
    IN  IF lead = Len(s) THEN << >>
        ELSE SubSeq(s, lead + 1, Len(s) - RunLengthBefore(s, Len(s) + 1, WhiteSpace))

\* s.split(sep) for a one-character separator: the pieces between the
\* occurrences of sep, the k-th piece ending before the k-th occurrence.
Split(s, sep) ==
    LET at     == {i \in 1..Len(s) : s[i] = sep}
        pos(k) == IF k = 0 THEN 0
                  ELSE IF k > Cardinality(at) THEN Len(s) + 1
                  ELSE CHOOSE p \in at : Cardinality({q \in at : q < p}) = k - 1
    IN  [k \in 1..(Cardinality(at) + 1) |-> SubSeq(s, pos(k - 1) + 1, pos(k) - 1)]

\* parts.join(sep)
RECURSIVE Join(_, _)
Join(parts, sep) ==
    IF parts = << >> THEN << >>
    ELSE IF Len(parts) = 1 THEN parts[1]
    ELSE parts[1] \o sep \o Join(Tail(parts), sep)

\* s.replace(/pat/g, rep) for a literal pattern.
RECURSIVE ReplaceAll(_, _, _)
ReplaceAll(s, pat, rep) ==
    LET i == IndexOf(s, pat)
    IN  IF i = 0 THEN s
        ELSE SubSeq(s, 1, i - 1) \o rep \o ReplaceAll(From(s, i + Len(pat)), pat, rep)

\* '#'.repeat(n)
RECURSIVE Repeat(_, _)
Repeat(c, n) == IF n <= 0 THEN << >> ELSE <<c>> \o Repeat(c, n - 1)

DigitChar(d) == CASE d = 0 -> "0" [] d = 1 -> "1" [] d = 2 -> "2" [] d = 3 -> "3"
                  [] d = 4 -> "4" [] d = 5 -> "5" [] d = 6 -> "6" [] d = 7 -> "7"
                  [] d = 8 -> "8" [] d = 9 -> "9"

DigitVal(c) == CASE c = "0" -> 0 [] c = "1" -> 1 [] c = "2" -> 2 [] c = "3" -> 3
                 [] c = "4" -> 4 [] c = "5" -> 5 [] c = "6" -> 6 [] c = "7" -> 7
                 [] c = "8" -> 8 [] c = "9" -> 9

\* n.toString() of a non-negative integer, and of any integer.
RECURSIVE NatToString(_)
NatToString(n) ==
    IF n < 10 THEN <<DigitChar(n)>> ELSE NatToString(n \div 10) \o <<DigitChar(n % 10)>>

NumToString(n) == IF n < 0 THEN <<"-">> \o NatToString(-n) ELSE NatToString(n)

\* parseInt(s, 10): leading white space, an optional sign, then the longest
\* run of digits; NaN when there is no digit.
RECURSIVE DigitsValue(_, _)
DigitsValue(s, acc) ==
    IF s = << >> \/ s[1] \notin Digit THEN acc
    ELSE DigitsValue(Tail(s), acc * 10 + DigitVal(s[1]))

RECURSIVE DropSpace(_)
DropSpace(s) == IF s # << >> /\ IsSpace(s[1]) THEN DropSpace(Tail(s)) ELSE s

\* The numeral after the sign: NaN when it does not start with a digit.
ParseDigits(neg, body) ==
    IF body = << >> \/ body[1] \notin Digit
    THEN [nan |-> TRUE, val |-> 0]
    ELSE [nan |-> FALSE,
          val |-> IF neg THEN -DigitsValue(body, 0) ELSE DigitsValue(body, 0)]

ParseSigned(t) ==
    ParseDigits(t # << >> /\ t[1] = "-",
                IF t # << >> /\ t[1] \in {"-", "+"} THEN Tail(t) ELSE t)

ParseInt(s) == ParseSigned(DropSpace(s))

(***************************************************************************)
(* The XFDF annotation parser.                                             *)
(*                                                                         *)
(* An XFDF file, as the DOM parser hands it over:                          *)
(*   [wellFormed, hasAnnots, children]                                     *)
(* and a child node of its annots element:                                 *)
(*   [nodeType, tagName, flags, rich, spans, rect, subject, name, page]    *)
(* nodeType is 1 for an element; rich is "none" (no contents-richtext      *)
(* descendant), "nobody" (contents-richtext without body) or "body";       *)
(* spans holds the textContent of every span descendant of body, in        *)
(* document order.  An absent attribute is the empty string: the code      *)
(* treats null and "" alike wherever it reads one.                         *)
(***************************************************************************)

ELEMENT_NODE == 1

\* String.fromCharCode, for the character codes the texts of the model use.
FromCharCode(n) == CASE n = 38 -> "&" [] n = 45 -> "-" [] n = 60 -> "<"
                     [] n = 62 -> ">" [] n = 124 -> "|" [] n = 120 -> "x"

HexDigit == Digit \cup {"a", "b", "c", "d", "e", "f", "A", "B", "C", "D", "E", "F"}

HexVal(c) == IF c \in Digit THEN DigitVal(c)
             ELSE CASE c \in {"a", "A"} -> 10 [] c \in {"b", "B"} -> 11
                    [] c \in {"c", "C"} -> 12 [] c \in {"d", "D"} -> 13
                    [] c \in {"e", "E"} -> 14 [] c \in {"f", "F"} -> 15

RECURSIVE HexValue(_, _)
HexValue(s, acc) ==
    IF s = << >> THEN acc ELSE HexValue(Tail(s), acc * 16 + HexVal(s[1]))

\* s.replace(/&#(\d+);/g, fromCharCode) and s.replace(/&#x([0-9a-fA-F]+);/g, ...):
\* `open` is the opening literal, `class` the characters of the group.
RECURSIVE ReplaceCharRefs(_, _, _, _)
ReplaceCharRefs(s, open, class, hex) ==
    LET hits == {i \in 1..Len(s) :
                    /\ MatchesAt(s, i, open)
                    /\ RunLength(s, i + Len(open), class) >= 1
                    /\ MatchesAt(s, i + Len(open) + RunLength(s, i + Len(open), class), <<";">>)}
    IN  IF hits = {} THEN s
        ELSE LET i   == Least(hits)
                 n   == RunLength(s, i + Len(open), class)
                 grp == SubSeq(s, i + Len(open), i + Len(open) + n - 1)
                 v   == IF hex THEN HexValue(grp, 0) ELSE DigitsValue(grp, 0)
             IN  SubSeq(s, 1, i - 1) \o <<FromCharCode(v)>>
                    \o ReplaceCharRefs(From(s, i + Len(open) + n + 1), open, class, hex)

\* decodeHtmlEntities: the chain of replace calls, the first innermost.
decodeHtmlEntities(str) ==
    IF str = << >> THEN str
    ELSE ReplaceCharRefs(
            ReplaceCharRefs(
               ReplaceAll(
                  ReplaceAll(
                     ReplaceAll(
                        ReplaceAll(
                           ReplaceAll(str, <<"&", "a", "m", "p", ";">>, <<"&">>),
                           <<"&", "l", "t", ";">>, <<"<">>),
                        <<"&", "g", "t", ";">>, <<">">>),
                     <<"&", "q", "u", "o", "t", ";">>, <<"\"">>),
                  <<"&", "#", "3", "9", ";">>, <<"'">>),
               <<"&", "#">>, Digit, FALSE),
            <<"&", "#", "x">>, HexDigit, TRUE)

Hidden == <<"h", "i", "d", "d", "e", "n">>

\* textParts of getTextContent: the trimmed, decoded text of every span whose
\* textContent is not empty.
RECURSIVE TextParts(_)
TextParts(spans) ==
    IF spans = << >> THEN << >>
    ELSE (IF spans[1] # << >> THEN <<decodeHtmlEntities(Trim(spans[1]))>> ELSE << >>)
            \o TextParts(Tail(spans))

NonEmpty(s) == s # << >>

\* As getTextContent, but without the test of the flags attribute.
getTextContent_NoFlags(annotNode) ==
    IF annotNode.rich = "none"
    THEN [null |-> TRUE, text |-> << >>]
    ELSE IF annotNode.rich = "body"
    THEN [null |-> FALSE,
          text |-> Join(SelectSeq(TextParts(annotNode.spans), NonEmpty), <<" ">>)]
    ELSE [null |-> FALSE, text |-> << >>]

\* As getTextContent, but null when contents-richtext has no body.
getTextContent_NoBody(annotNode) ==
    IF annotNode.flags # << >> /\ Includes(annotNode.flags, Hidden)
    THEN [null |-> TRUE, text |-> << >>]
    ELSE IF annotNode.rich = "body"
    THEN [null |-> FALSE,
          text |-> Join(SelectSeq(TextParts(annotNode.spans), NonEmpty), <<" ">>)]
    ELSE [null |-> TRUE, text |-> << >>]

\* XFDFParser.getTextContent: [null |-> TRUE] stands for the null result.
getTextContent(annotNode) ==
    IF annotNode.flags # << >> /\ Includes(annotNode.flags, Hidden)
    THEN [null |-> TRUE, text |-> << >>]
    ELSE IF annotNode.rich = "none"
    THEN [null |-> TRUE, text |-> << >>]
    ELSE IF annotNode.rich = "body"
    THEN [null |-> FALSE,
          text |-> Join(SelectSeq(TextParts(annotNode.spans), NonEmpty), <<" ">>)]
    ELSE [null |-> FALSE, text |-> << >>]

\* tag.toLowerCase() and tag.charAt(0).toUpperCase() + tag.slice(1) of a tag
\* name; a tag name is one element, and the tables cover the names in use.
ToLowerCase(tag) ==
    CASE tag \in {"highlight", "Highlight", "HIGHLIGHT"} -> "highlight"
      [] tag \in {"text", "Text"} -> "text"
      [] tag \in {"ink", "Ink"} -> "ink"
      [] tag \in {"popup", "Popup"} -> "popup"
      [] OTHER -> tag

Capitalize(tag) ==
    CASE tag = "highlight" -> "Highlight" [] tag = "squiggly" -> "Squiggly"
      [] tag = "underline" -> "Underline" [] tag = "strikeout" -> "Strikeout"
      [] tag = "text" -> "Text" [] tag = "freetext" -> "Freetext"
      [] tag = "square" -> "Square" [] tag = "circle" -> "Circle"
      [] tag = "line" -> "Line" [] tag = "polygon" -> "Polygon"
      [] tag = "polyline" -> "Polyline" [] tag = "ink" -> "Ink"

tagNames == {"highlight", "squiggly", "underline", "strikeout", "text", "freetext",
             "square", "circle", "line", "polygon", "polyline", "ink"}

\* `${pageNum || ""}` where pageNum = (page ? parseInt(page, 10) : 0) + 1
PageFieldOf(p) == IF p.nan \/ p.val + 1 = 0 THEN << >> ELSE NumToString(p.val + 1)

PageField(page) ==
    PageFieldOf(IF page # << >> THEN ParseInt(page) ELSE [nan |-> FALSE, val |-> 0])

\* The snapshot line pushed for an annotation element whose text is
\* `contents`, none when that is null.
SnapshotLine(node, contents) ==
    IF contents.null THEN << >>
    ELSE << <<Capitalize(ToLowerCase(node.tagName))>> \o <<"|">> \o contents.text
            \o <<"|">> \o node.rect \o <<"|">> \o <<"undefined">> \o <<"|">>
            \o node.subject \o <<"|">> \o node.name \o <<"|">>
            \o PageField(node.page) >>

\* The snapshot line of one child node of annots, or no line.
SnapshotOf(node) ==
    IF node.nodeType = ELEMENT_NODE /\ ToLowerCase(node.tagName) \in tagNames
    THEN SnapshotLine(node, getTextContent(node))
    ELSE << >>

RECURSIVE SnapshotLines(_)
SnapshotLines(nodes) ==
    IF nodes = << >> THEN << >>
    ELSE SnapshotOf(nodes[1]) \o SnapshotLines(Tail(nodes))

\* parseXFDFToSnapshot: a parse that raises is caught, and the lines
\* collected so far (none) are returned.
parseXFDFToSnapshot(xfdf) ==
    IF ~xfdf.wellFormed THEN << >>
    ELSE IF ~xfdf.hasAnnots THEN << >>
    ELSE SnapshotLines(xfdf.children)

(***************************************************************************)
(* Identity and link derivation.                                           *)
(*                                                                         *)
(* A file of the vault: [kind |-> "file", extension, basename, path,       *)
(* xfdf, pdfPath], a folder: [kind |-> "folder", children].  basename is   *)
(* the file name without its extension, path the path inside the vault     *)
(* and pdfPath the PDF path that generatePdfInternalLink resolves from the *)
(* file's f element and the vault's files ("" when it finds none).         *)
(***************************************************************************)

\* The vault's base path, adapter.getBasePath().
BasePath == <<"C", ":", "\\", "v">>

\* encodeURIComponent, for the characters paths and identifiers of the
\* model are made of.
EncodeChar(c) ==
    CASE c = "/" -> <<"%", "2", "F">>
      [] c = ":" -> <<"%", "3", "A">>
      [] c = " " -> <<"%", "2", "0">>
      [] c = "\\" -> <<"%", "5", "C">>
      [] OTHER -> <<c>>

RECURSIVE encodeURIComponent(_)
encodeURIComponent(s) ==
    IF s = << >> THEN << >> ELSE EncodeChar(s[1]) \o encodeURIComponent(Tail(s))

convertToFullyEncodedUnixPathXFDF(windowsPath) ==
    encodeURIComponent(ReplaceAll(windowsPath, <<"\\">>, <<"/">>))

\* generatePxceLink of main.ts; localFs: the adapter is a FileSystemAdapter.
generatePxceLink(localFs, xfdfVaultPath, pageStr, commentId) ==
    IF ~localFs THEN << >>
    ELSE <<"pxce:file:///">>
            \o convertToFullyEncodedUnixPathXFDF(
                  BasePath \o <<"\\">> \o ReplaceAll(xfdfVaultPath, <<"/">>, <<"\\">>))
            \o <<"#", "page=">> \o pageStr
            \o <<";", "view=FitH", ";", "comment=">> \o commentId

\* generatePdfInternalLink: the link built from the resolved PDF path.
generatePdfInternalLink(pdfPath, pageStr, rect, color) ==
    IF pdfPath = << >> THEN << >>
    ELSE ReplaceAll(pdfPath, <<" ">>, <<"%", "2", "0">>) \o <<"#", "page=">> \o pageStr
            \o (IF rect # << >> THEN <<"&", "rect=">> \o rect ELSE << >>)
            \o (IF color # << >> /\ color # <<"undefined">>
                THEN <<"&", "color=">> \o color ELSE << >>)

\* The k-th variable of  const [type, ...] = line.split('|')  (undefined reads as "").
Field(fields, k) == IF k <= Len(fields) THEN fields[k] ELSE << >>

\* `${pageNum}` for pageNum = page ? parseInt(page, 10) : 1
PageStringOf(p) == IF p.nan THEN <<"NaN">> ELSE NumToString(p.val)

PageString(page) == IF page = << >> THEN <<"1">> ELSE PageStringOf(ParseInt(page))

Placeholder == <<"CHAKANZHUSHI">>

\* One callback of snapshotLines.map in main.ts: the annotation of a snapshot
\* line; now is the value Date.now() returns in it.
Annotation(localFs, file, line, now) ==
    LET docTitle == file.basename
        Linked(contents, rect, color, uniqueId, pageStr) ==
            [uniqueId |-> uniqueId,
             obsidianLink |->
                (IF contents # << >> THEN contents ELSE Placeholder)
                    \o <<" ", "[">> \o docTitle \o <<"FWCOLON", "DI">> \o pageStr
                    \o <<"YE", "]", "(">>
                    \o generatePdfInternalLink(file.pdfPath, pageStr, rect, color)
                    \o <<")", " ", "[", "pxceLink", "]", "(">>
                    \o generatePxceLink(localFs, file.path, pageStr, uniqueId) \o <<")">>,
             page |-> pageStr]
        Named(fields, name) ==
            Linked(Field(fields, 2), Field(fields, 3), Field(fields, 4),
                   IF name # << >> THEN name ELSE docTitle \o <<"-">> \o NumToString(now),
                   PageString(Field(fields, 7)))
        Fields(fields) == Named(fields, Field(fields, 6))
    IN  Fields(Split(line, "|"))

\* generatePxceLink of part_000: the path is built from the folder setting.
generatePxceLink_000(localFs, xfdfFolder, xfdfFileName, pageStr, commentId) ==
    IF ~localFs THEN << >>
    ELSE <<"pxce:file:///">>
            \o convertToFullyEncodedUnixPathXFDF(
                  BasePath \o <<"\\">>
                    \o ReplaceAll(xfdfFolder \o <<"/">> \o xfdfFileName, <<"/">>, <<"\\">>))
            \o <<"#", "page=">> \o pageStr
            \o <<";", "view=FitH", ";", "comment=">> \o commentId

\* The callback of snapshotLines.map in part_000.
Annotation_000(localFs, xfdfFolder, file, line, now) ==
    LET docTitle == file.basename
        Linked(type, contents, uniqueId, pageStr) ==
            [uniqueId |-> uniqueId,
             obsidianLink |->
                type \o <<":", " ">>
                    \o (IF contents # << >> THEN contents ELSE Placeholder)
                    \o <<" ", "[">> \o docTitle \o <<"FWCOLON", "DI">> \o pageStr
                    \o <<"YE", "]", "(">>
                    \o generatePxceLink_000(localFs, xfdfFolder,
                                            file.basename \o <<".xfdf">>, pageStr, uniqueId)
                    \o <<")">>,
             page |-> pageStr]
        Named(fields, name) ==
            Linked(Field(fields, 1), Field(fields, 2),
                   IF name # << >> THEN name ELSE docTitle \o <<"-">> \o NumToString(now),
                   PageString(Field(fields, 7)))
        Fields(fields) == Named(fields, Field(fields, 6))
    IN  Fields(Split(line, "|"))

\* The two ManagedLine formats the reconcilers write.
SectionLine(annot) ==
    <<"-", " ">> \o annot.obsidianLink
        \o <<" ", "<", "!", "-", "-">> \o annot.uniqueId
        \o <<" ", "-", "-", ">", "[", "tag::", " ", "]">>

OrphanLine(annot) ==
    <<"-", " ">> \o annot.obsidianLink
        \o <<" ", "<", "!", "-", "-", " ">> \o annot.uniqueId
        \o <<" ", "-", "-", ">", "[", "tag::", " ", "]">>

(***************************************************************************)
(* The mapping from document title to annotations (allNewAnnotations).     *)
(* A JavaScript object keeps its string keys in insertion order: the       *)
(* mapping is a sequence of [title, annots] entries with distinct titles.  *)
(***************************************************************************)

\* findXfdfFiles of main.ts: the .xfdf files of a folder and, recursively,
\* of its sub-folders, in the order of folder.children.
RECURSIVE findXfdfFiles(_)
findXfdfFiles(children) ==
    IF children = << >> THEN << >>
    ELSE LET child == children[1]
         IN  (IF child.kind = "file"
              THEN (IF child.extension = "xfdf" THEN <<child>> ELSE << >>)
              ELSE findXfdfFiles(child.children))
                \o findXfdfFiles(Tail(children))

\* The flat listing of part_000: the files of the folder itself whose name
\* ends with ".xfdf".
RECURSIVE ListXfdfFiles_000(_)
ListXfdfFiles_000(children) ==
    IF children = << >> THEN << >>
    ELSE (IF children[1].kind = "file" /\ children[1].extension = "xfdf"
          THEN <<children[1]>> ELSE << >>)
            \o ListXfdfFiles_000(Tail(children))

\* Property names every object inherits from Object.prototype: reading one
\* from allNewAnnotations yields a value that is neither undefined nor an array.
InheritedKeys == {<<"constructor">>, <<"toString">>, <<"valueOf">>, <<"__proto__">>}

HasKey(mapping, title) == \E k \in 1..Len(mapping) : mapping[k].title = title

KeyIndex(mapping, title) == CHOOSE k \in 1..Len(mapping) : mapping[k].title = title

\* allNewAnnotations[docTitle].push(...annotations), after the
\* initialisation  if (!allNewAnnotations[docTitle]) allNewAnnotations[docTitle] = [].
PushAnnotations(mapping, title, annots) ==
    IF HasKey(mapping, title)
    THEN [mapping EXCEPT ![KeyIndex(mapping, title)].annots = @ \o annots]
    ELSE Append(mapping, [title |-> title, annots |-> annots])

\* The number of snapshot lines without a name: the calls of Date.now().
NamelessCount(lines) ==
    Cardinality({k \in 1..Len(lines) : Field(Split(lines[k], "|"), 6) = << >>})

\* snapshotLines.map(...) of main.ts; ts holds the values of Date.now(), one
\* for every line without a name, in order.
RECURSIVE Annotations(_, _, _, _)
Annotations(localFs, file, lines, ts) ==
    IF lines = << >> THEN << >>
    ELSE LET nameless == Field(Split(lines[1], "|"), 6) = << >>
             now      == IF nameless THEN ts[1] ELSE 0
         IN  <<Annotation(localFs, file, lines[1], now)>>
                \o Annotations(localFs, file, Tail(lines),
                               IF nameless THEN Tail(ts) ELSE ts)

RECURSIVE Annotations_000(_, _, _, _, _)
Annotations_000(localFs, xfdfFolder, file, lines, ts) ==
    IF lines = << >> THEN << >>
    ELSE LET nameless == Field(Split(lines[1], "|"), 6) = << >>
             now      == IF nameless THEN ts[1] ELSE 0
         IN  <<Annotation_000(localFs, xfdfFolder, file, lines[1], now)>>
                \o Annotations_000(localFs, xfdfFolder, file, Tail(lines),
                                   IF nameless THEN Tail(ts) ELSE ts)

\* As BuildMapping, but the loop ends at the first file without snapshot lines.
RECURSIVE BuildMapping_Break(_, _, _, _)
BuildMapping_Break(localFs, files, ts, acc) ==
    IF files = << >> \/ acc.threw THEN acc
    ELSE LET file == files[1]
             Parsed(lines, n) ==
                IF lines = << >> THEN acc
                ELSE IF file.basename \in InheritedKeys
                THEN [acc EXCEPT !.threw = TRUE]
                ELSE BuildMapping_Break(localFs, Tail(files), SubSeq(ts, n + 1, Len(ts)),
                        [acc EXCEPT !.mapping =
                           PushAnnotations(@, file.basename,
                               Annotations(localFs, file, lines, SubSeq(ts, 1, n)))])
             Counted(lines) == Parsed(lines, NamelessCount(lines))
         IN  Counted(parseXFDFToSnapshot(file.xfdf))

\* The loop over xfdfFiles of main.ts, from the mapping built so far.  A
\* title that names an inherited property makes push raise a TypeError,
\* which ends the run.
RECURSIVE BuildMapping(_, _, _, _)
BuildMapping(localFs, files, ts, acc) ==
    IF files = << >> \/ acc.threw THEN acc
    ELSE LET file == files[1]
             Parsed(lines, n) ==
                IF lines = << >> THEN BuildMapping(localFs, Tail(files), ts, acc)
                ELSE IF file.basename \in InheritedKeys
                THEN [acc EXCEPT !.threw = TRUE]
                ELSE BuildMapping(localFs, Tail(files), SubSeq(ts, n + 1, Len(ts)),
                        [acc EXCEPT !.mapping =
                           PushAnnotations(@, file.basename,
                               Annotations(localFs, file, lines, SubSeq(ts, 1, n)))])
             Counted(lines) == Parsed(lines, NamelessCount(lines))
         IN  Counted(parseXFDFToSnapshot(file.xfdf))

RECURSIVE BuildMapping_000(_, _, _, _, _)
BuildMapping_000(localFs, xfdfFolder, files, ts, acc) ==
    IF files = << >> \/ acc.threw THEN acc
    ELSE LET file == files[1]
             Parsed(lines, n) ==
                IF lines = << >>
                THEN BuildMapping_000(localFs, xfdfFolder, Tail(files), ts, acc)
                ELSE IF file.basename \in InheritedKeys
                THEN [acc EXCEPT !.threw = TRUE]
                ELSE BuildMapping_000(localFs, xfdfFolder, Tail(files),
                        SubSeq(ts, n + 1, Len(ts)),
                        [acc EXCEPT !.mapping =
                           PushAnnotations(@, file.basename,
                               Annotations_000(localFs, xfdfFolder, file, lines,
                                               SubSeq(ts, 1, n)))])
             Counted(lines) == Parsed(lines, NamelessCount(lines))
         IN  Counted(parseXFDFToSnapshot(file.xfdf))

EmptyMapping == [threw |-> FALSE, mapping |-> << >>]

\* The total number of Date.now() calls of a run over these files.
RECURSIVE ClockReads(_)
ClockReads(files) ==
    IF files = << >> THEN 0
    ELSE NamelessCount(parseXFDFToSnapshot(files[1].xfdf)) + ClockReads(Tail(files))

(***************************************************************************)
(* Line classification.                                                    *)
(***************************************************************************)

CommentOpen == <<"<", "!", "-", "-">>

CommentClose == <<"-", "-", ">">>

\* The positions p at which /\s*-->/ matches: a "-->" follows p after white
\* space only.
ClosePositions(s) ==
    UNION {(j - RunLengthBefore(s, j, WhiteSpace))..j :
              j \in {q \in 1..Len(s) : MatchesAt(s, q, CommentClose)}}

\* The ways /<!--\s*(.+?)\s*-->/ matches with its "<!--" at position i, as
\* pairs <<k, e>>: k characters taken by the first \s*, and e the position
\* of the last character of the group (any characters but a newline).
IdMatches(line, i) ==
    LET a  == i + Len(CommentOpen)
        ws == RunLength(line, a, WhiteSpace)
    IN  {m \in (0..ws) \X {p - 1 : p \in ClosePositions(line)} :
            /\ m[2] >= a + m[1]
            /\ \A k \in (a + m[1])..m[2] : line[k] # "\n"}

\* getIdFromLine: group 1 of the leftmost match, the first \s* greedy and the
\* group lazy; << >> stands for null (the group is never empty).
getIdFromLine(line) ==
    LET opens == {i \in {q \in 1..Len(line) : MatchesAt(line, q, CommentOpen)} :
                    IdMatches(line, i) # {}}
    IN  IF opens = {} THEN << >>
        ELSE LET i  == Least(opens)
                 ms == IdMatches(line, i)
                 k  == Greatest({m[1] : m \in ms})
                 e  == Least({m[2] : m \in {n \in ms : n[1] = k}})
             IN  SubSeq(line, i + Len(CommentOpen) + k, e)

\* trimmed.match(/^(#+)\s+(.*)/): the number of '#' of a header line, 0 when
\* the pattern does not match.
HeaderLevel(line) ==
    LET t == Trim(line)
        n == RunLength(t, 1, {"#"})
    IN  IF n >= 1 /\ n < Len(t) /\ IsSpace(t[n + 1]) THEN n ELSE 0

\* Group 2 of the same match, the title text.
HeaderTitle(line) ==
    LET t == Trim(line)
        n == RunLength(t, 1, {"#"})
    IN  From(t, n + 1 + RunLength(t, n + 1, WhiteSpace))

\* isH2Title: group 1 of trimmed.match(/^##\s+(.*)/), << >> for null.
isH2Title(line) ==
    LET t == Trim(line)
    IN  IF MatchesAt(t, 1, <<"#", "#">>) /\ Len(t) > 2 /\ IsSpace(t[3])
        THEN From(t, 3 + RunLength(t, 3, WhiteSpace))
        ELSE << >>

Range(f) == {f[k] : k \in DOMAIN f}

(***************************************************************************)
(* The reconciler of main.ts.  The state of its loops:                     *)
(*   i        currentLineIndex (1-based)                                   *)
(*   out      finalContentLines                                            *)
(*   origin   for every element of out, the index of the original line it  *)
(*            was pushed for, 0 for an element pushed for no original line *)
(*   titles   processedTitles                                              *)
(*   new, upd, skip   totalNewAnnotations, totalUpdatedAnnotations,        *)
(*            totalSkippedAnnotations                                      *)
(*   threw    a TypeError ended the run                                    *)
(***************************************************************************)

LoopStart == [i |-> 1, out |-> << >>, origin |-> << >>, titles |-> {},
              new |-> 0, upd |-> 0, skip |-> 0, threw |-> FALSE]

\* As Consume, but pushing trimmedLine, the other variable the loops hold.
Consume_Trimmed(st, line) ==
    [st EXCEPT !.out = Append(@, Trim(line)), !.origin = Append(@, st.i), !.i = @ + 1]

\* finalContentLines.push(line) for the original line at st.i; currentLineIndex++
Consume(st, line) ==
    [st EXCEPT !.out = Append(@, line), !.origin = Append(@, st.i), !.i = @ + 1]

\* finalContentLines.push(line) of a line the reconciler adds
Emit(st, line) ==
    [st EXCEPT !.out = Append(@, line), !.origin = Append(@, 0)]

\* allNewAnnotations[titleText] || []
Lookup(mapping, title) ==
    IF HasKey(mapping, title) THEN mapping[KeyIndex(mapping, title)].annots ELSE << >>

\* newAnnotationsForTitle.find(a => a.uniqueId === oldId)
Find(annots, id) ==
    annots[CHOOSE k \in 1..Len(annots) :
              /\ annots[k].uniqueId = id
              /\ \A j \in 1..(k - 1) : annots[j].uniqueId # id]

HasId(annots, id) == \E k \in 1..Len(annots) : annots[k].uniqueId = id

\* hasPdfLinkChanged of main.ts
hasPdfLinkChanged(peekLine, newAnnotation) ==
    \/ ~Includes(peekLine, newAnnotation.page)
    \/ ~Includes(peekLine, newAnnotation.uniqueId)

\* As SectionStep, but dropping a line whose ID names no annotation of the
\* section: the deletion of an annotation carried over to the document.
SectionStep_Prune(st, peekLine, annots) ==
    LET Matched(newAnnotation) ==
            IF hasPdfLinkChanged(peekLine, newAnnotation)
            THEN [Consume(st, SectionLine(newAnnotation)) EXCEPT !.upd = @ + 1]
            ELSE [Consume(st, peekLine) EXCEPT !.skip = @ + 1]
        Identified(oldId) ==
            IF oldId # << >> /\ HasId(annots, oldId)
            THEN Matched(Find(annots, oldId))
            ELSE IF oldId # << >>
            THEN [st EXCEPT !.i = @ + 1]
            ELSE Consume(st, peekLine)
    IN  Identified(getIdFromLine(peekLine))

\* One line of a section in main.ts (the body of the inner while loop, after
\* the test for the header that ends the section).
SectionStep(st, peekLine, annots) ==
    LET Matched(newAnnotation) ==
            IF hasPdfLinkChanged(peekLine, newAnnotation)
            THEN [Consume(st, SectionLine(newAnnotation)) EXCEPT !.upd = @ + 1]
            ELSE [Consume(st, peekLine) EXCEPT !.skip = @ + 1]
        Identified(oldId) ==
            IF oldId # << >> /\ HasId(annots, oldId)
            THEN Matched(Find(annots, oldId))
            ELSE Consume(st, peekLine)
    IN  Identified(getIdFromLine(peekLine))

\* As SectionLoop, but a section ends before the next header of any level.
RECURSIVE SectionLoop_AnyHeader(_, _, _)
SectionLoop_AnyHeader(st, lines, annots) ==
    IF st.i > Len(lines) THEN st
    ELSE IF HeaderLevel(lines[st.i]) >= 1 THEN st
    ELSE SectionLoop_AnyHeader(SectionStep(st, lines[st.i], annots), lines, annots)

\* The inner while loop of main.ts: a section ends before the next header of
\* level 1 or 2.
RECURSIVE SectionLoop(_, _, _)
SectionLoop(st, lines, annots) ==
    IF st.i > Len(lines) THEN st
    ELSE LET level == HeaderLevel(lines[st.i])
         IN  IF level >= 1 /\ level <= 2 THEN st
             ELSE SectionLoop(SectionStep(st, lines[st.i], annots), lines, annots)

\* processedIds: the IDs of all lines of finalContentLines.
ProcessedIds(out) == {getIdFromLine(out[k]) : k \in 1..Len(out)} \ {<< >>}

\* As AppendNew, but the last annotation is appended first.
RECURSIVE AppendNew_Reversed(_, _, _)
AppendNew_Reversed(st, annots, processedIds) ==
    IF annots = << >> THEN st
    ELSE AppendNew_Reversed(
            IF annots[Len(annots)].uniqueId \notin processedIds
            THEN [Emit(st, SectionLine(annots[Len(annots)])) EXCEPT !.new = @ + 1]
            ELSE st,
            SubSeq(annots, 1, Len(annots) - 1), processedIds)

\* The loop that appends the annotations whose ID is not in processedIds.
RECURSIVE AppendNew(_, _, _)
AppendNew(st, annots, processedIds) ==
    IF annots = << >> THEN st
    ELSE AppendNew(IF annots[1].uniqueId \notin processedIds
                   THEN [Emit(st, SectionLine(annots[1])) EXCEPT !.new = @ + 1]
                   ELSE st,
                   Tail(annots), processedIds)

\* The outer while loop of main.ts.  A header whose title names an inherited
\* property makes newAnnotationsForTitle.map raise a TypeError.
RECURSIVE MainLoop(_, _, _)
MainLoop(st, lines, mapping) ==
    IF st.threw \/ st.i > Len(lines) THEN st
    ELSE LET Ended(st2, annots) ==
                MainLoop(AppendNew(st2, annots, ProcessedIds(st2.out)), lines, mapping)
             Section(st1, annots) == Ended(SectionLoop(st1, lines, annots), annots)
             Titled(st1, h2Title) ==
                IF ~HasKey(mapping, h2Title) /\ h2Title \in InheritedKeys
                THEN [st1 EXCEPT !.threw = TRUE]
                ELSE Section(st1, Lookup(mapping, h2Title))
             Line(line, h2Title) ==
                IF h2Title # << >>
                THEN Titled([Consume(st, line) EXCEPT !.titles = @ \cup {h2Title}], h2Title)
                ELSE MainLoop(Consume(st, line), lines, mapping)
         IN  Line(lines[st.i], isH2Title(lines[st.i]))

\* A property name that is an array index: a canonical decimal numeral
\* below 2^32 - 1 (here: of at most nine digits, the numerals TLC's integers
\* hold).  Object.keys lists these first, in ascending order.
IsArrayIndex(title) ==
    /\ title # << >>
    /\ \A k \in 1..Len(title) : title[k] \in Digit
    /\ (Len(title) = 1 \/ title[1] # "0")
    /\ Len(title) <= 9

RECURSIVE Ascending(_)
Ascending(entries) ==
    IF entries = << >> THEN << >>
    ELSE LET k == CHOOSE x \in 1..Len(entries) :
                    \A y \in 1..Len(entries) :
                        DigitsValue(entries[x].title, 0) <= DigitsValue(entries[y].title, 0)
         IN  <<entries[k]>>
                \o Ascending(SubSeq(entries, 1, k - 1) \o SubSeq(entries, k + 1, Len(entries)))

IndexEntry(entry) == IsArrayIndex(entry.title)

NamedEntry(entry) == ~IsArrayIndex(entry.title)

\* Object.keys(allNewAnnotations), as the entries in that order.
ObjectKeys(mapping) ==
    Ascending(SelectSeq(mapping, IndexEntry)) \o SelectSeq(mapping, NamedEntry)

\* .filter(title => !processedTitles.has(title))
RECURSIVE OrphanTitles(_, _)
OrphanTitles(entries, titles) ==
    IF entries = << >> THEN << >>
    ELSE (IF entries[1].title \notin titles THEN <<entries[1]>> ELSE << >>)
            \o OrphanTitles(Tail(entries), titles)

Separator == <<"\n", "\n", "-", "-", "-", "\n">>

\* As OrphanHeader, but with the level-2 header ignoring the setting.
OrphanHeader_H2(headerLevel, docTitle) ==
    <<"\n", "#", "#", " ">> \o docTitle \o <<"\n">>

\* `\n${'#'.repeat(headerLevel)} ${docTitle}\n`
OrphanHeader(headerLevel, docTitle) ==
    <<"\n">> \o Repeat("#", headerLevel) \o <<" ">> \o docTitle \o <<"\n">>

RECURSIVE EmitOrphanLines(_, _)
EmitOrphanLines(st, annots) ==
    IF annots = << >> THEN st
    ELSE EmitOrphanLines([Emit(st, OrphanLine(annots[1])) EXCEPT !.new = @ + 1],
                         Tail(annots))

RECURSIVE EmitOrphans(_, _, _)
EmitOrphans(st, orphans, headerLevel) ==
    IF orphans = << >> THEN st
    ELSE EmitOrphans(EmitOrphanLines(Emit(st, OrphanHeader(headerLevel, orphans[1].title)),
                                     orphans[1].annots),
                     Tail(orphans), headerLevel)

\* Steps 3 and 4 of importAnnotations in main.ts: the reconciled lines and
\* the counts.
Reconcile(lines, mapping, headerLevel) ==
    LET Orphans(st, orphans) ==
            IF st.threw \/ orphans = << >> THEN st
            ELSE EmitOrphans(Emit(st, Separator), orphans, headerLevel)
        Scanned(st) == Orphans(st, OrphanTitles(ObjectKeys(mapping), st.titles))
    IN  Scanned(MainLoop(LoopStart, lines, mapping))

(***************************************************************************)
(* The reconciler of part_000.  It keeps no counts; the fields new, upd    *)
(* and skip of the loop state stay 0.                                      *)
(***************************************************************************)

\* The end of coreLinkRegex, \s*(\[tag::.*?\])?$, on the text after "-->".
CoreLinkTail(rest) ==
    \/ rest = << >>
    \/ /\ Len(rest) >= 3
       /\ rest[1] = "[" /\ rest[2] = "tag::"
       /\ rest[Len(rest)] = "]"

\* peekLine.match(coreLinkRegex) is not null, for
\*   /^- \[.*?\]\(.*?\) <!--\s*.+?\s*-->\s*(\[tag::.*?\])?$/
\* on a line without a line break (a line of split('\n')).
coreLinkRegex(peekLine) ==
    /\ MatchesAt(peekLine, 1, <<"-", " ", "[">>)
    /\ \E p \in {x \in 4..Len(peekLine) : MatchesAt(peekLine, x, <<"]", "(">>)} :
          \E q \in {x \in (p + 2)..Len(peekLine) :
                        MatchesAt(peekLine, x, <<")", " ">> \o CommentOpen)} :
             \E r \in {x \in (q + 7)..Len(peekLine) : MatchesAt(peekLine, x, CommentClose)} :
                CoreLinkTail(From(peekLine, r + 3 + RunLength(peekLine, r + 3, WhiteSpace)))

\* peekLine.match(coreLinkRegex)?.[0] || ""
oldCoreLink(peekLine) == IF coreLinkRegex(peekLine) THEN peekLine ELSE << >>

\* One line of a section in part_000.
SectionStep_000(st, peekLine, annots) ==
    LET Matched(newCoreLink) ==
            IF oldCoreLink(peekLine) = newCoreLink
            THEN Consume(st, peekLine)
            ELSE Consume(st, newCoreLink)
        Identified(oldId) ==
            IF oldId # << >> /\ HasId(annots, oldId)
            THEN Matched(SectionLine(Find(annots, oldId)))
            ELSE Consume(st, peekLine)
    IN  Identified(getIdFromLine(peekLine))

\* The inner while loop of part_000: a section ends before the next header
\* of the level of its own header or above.
RECURSIVE SectionLoop_000(_, _, _, _)
SectionLoop_000(st, lines, annots, level) ==
    IF st.i > Len(lines) THEN st
    ELSE LET Peeked(nextLevel) ==
                IF nextLevel >= 1 /\ nextLevel <= level THEN st
                ELSE SectionLoop_000(SectionStep_000(st, lines[st.i], annots),
                                     lines, annots, level)
         IN  Peeked(HeaderLevel(lines[st.i]))

\* The loop of part_000 that appends the annotations whose ID is not in
\* processedIds.
RECURSIVE AppendNew_000(_, _, _)
AppendNew_000(st, annots, processedIds) ==
    IF annots = << >> THEN st
    ELSE AppendNew_000(IF annots[1].uniqueId \notin processedIds
                       THEN Emit(st, OrphanLine(annots[1]))
                       ELSE st,
                       Tail(annots), processedIds)

\* The outer while loop of part_000: a header of any level opens a section.
RECURSIVE MainLoop_000(_, _, _)
MainLoop_000(st, lines, mapping) ==
    IF st.threw \/ st.i > Len(lines) THEN st
    ELSE LET Ended(st2, annots) ==
                MainLoop_000(AppendNew_000(st2, annots, ProcessedIds(st2.out)),
                             lines, mapping)
             Section(st1, annots, level) ==
                Ended(SectionLoop_000(st1, lines, annots, level), annots)
             Titled(st1, titleText, level) ==
                IF ~HasKey(mapping, titleText) /\ titleText \in InheritedKeys
                THEN [st1 EXCEPT !.threw = TRUE]
                ELSE Section(st1, Lookup(mapping, titleText), level)
             Line(line, level) ==
                IF level >= 1
                THEN Titled([Consume(st, line) EXCEPT !.titles = @ \cup {HeaderTitle(line)}],
                            HeaderTitle(line), level)
                ELSE MainLoop_000(Consume(st, line), lines, mapping)
         IN  Line(lines[st.i], HeaderLevel(lines[st.i]))

RECURSIVE EmitOrphanLines_000(_, _)
EmitOrphanLines_000(st, annots) ==
    IF annots = << >> THEN st
    ELSE EmitOrphanLines_000(Emit(st, OrphanLine(annots[1])), Tail(annots))

\* The orphan sections of part_000: always under a level-1 header.
RECURSIVE EmitOrphans_000(_, _)
EmitOrphans_000(st, orphans) ==
    IF orphans = << >> THEN st
    ELSE EmitOrphans_000(
            EmitOrphanLines_000(
               Emit(st, <<"\n", "#", " ">> \o orphans[1].title \o <<"\n">>),
               orphans[1].annots),
            Tail(orphans))

\* Steps 3 and 4 of importAnnotations in part_000.
Reconcile_000(lines, mapping) ==
    LET Orphans(st, orphans) ==
            IF st.threw \/ orphans = << >> THEN st
            ELSE EmitOrphans_000(Emit(st, Separator), orphans)
        Scanned(st) == Orphans(st, OrphanTitles(ObjectKeys(mapping), st.titles))
    IN  Scanned(MainLoop_000(LoopStart, lines, mapping))

(***************************************************************************)
(* The plugin in its vault.                                                *)
(***************************************************************************)

VARIABLES
    targetExists,   \* the target document is a file of the vault
    content,        \* its text
    folder,         \* what settings.xfdfFolder names: [kind, children]
    headerLevel,    \* settings.headerLevel
    localFs,        \* the vault's adapter is a FileSystemAdapter
    clock,          \* the last value Date.now() returned
    run,            \* the last run of importAnnotations, see NoRun
    runs,           \* the number of runs so far
    edits,          \* the number of changes made to the vault by its user
    xfdfString,     \* the XFDF input last handed to the parser
    snapshotLines,  \* what parseXFDFToSnapshot returned for it: [parsed, lines]
    calls           \* the invocations of importAnnotations in progress, see Idle

vars == <<targetExists, content, folder, headerLevel, localFs, clock, run, runs, edits,
          xfdfString, snapshotLines, calls>>

\* Bounds of the model.
MaxRuns == 3

MaxEdits == 2

MaxClock == 1

\* What the next run remembers of the run before it.
Summary(r) ==
    [outcome |-> r.outcome, variant |-> r.variant, mapping |-> r.mapping,
     before |-> r.before, after |-> r.after, folder |-> r.folder,
     headerLevel |-> r.headerLevel]

\* The record of a run:
\*   variant      "main" (src/main.ts) or "000" (src/unnamed/part_000)
\*   outcome      "none" (no run yet), "nofolder" (aborted at the folder test),
\*                "threw" (ended by a TypeError) or "done"
\*   before       the text of the target document when the run read it
\*   existed      the target document existed when the run started
\*   after        the text of the target document when the run ended
\*   lines        originalLines
\*   mapping      allNewAnnotations
\*   out, origin, new, upd, skip   the final state of the reconciler
\*   notice       the Notice shown
\*   wrote        vault.modify was called
\*   folder, headerLevel   the sources and the setting the run used
\*   prev         the summary of the run before
NoRun ==
    [variant |-> "none", outcome |-> "none", before |-> << >>, after |-> << >>,
     existed |-> FALSE, lines |-> << >>,
     mapping |-> << >>, out |-> << >>, origin |-> << >>,
     new |-> 0, upd |-> 0, skip |-> 0, notice |-> "none", wrote |-> FALSE,
     folder |-> [kind |-> "none", children |-> << >>], headerLevel |-> 0,
     prev |-> [outcome |-> "none", variant |-> "none", mapping |-> << >>,
               before |-> << >>, after |-> << >>,
               folder |-> [kind |-> "none", children |-> << >>], headerLevel |-> 0]]

MaxCalls == 2

\* An invocation of importAnnotations that is not running, and one at its
\* awaits: "creating" (vault.create of the target document pending),
\* "reading" (vault.read of it pending) and "sources" (the target document
\* read into `before`; the sources, the reconciliation and the write-back
\* still to come).
Idle == [pc |-> "idle", before |-> << >>]

NoCalls == [c \in 1..MaxCalls |-> Idle]

\* The values Date.now() can return in n successive calls after `from`.
TimeSeqs(n, from) ==
    {ts \in [1..n -> from..MaxClock] : \A k \in 1..(n - 1) : ts[k] <= ts[k + 1]}

\* Step 6 of importAnnotations in main.ts: the text written when there are changes.
WrittenText(out) == Trim(Join(out, <<"\n">>))

\* As totalChanges, but counting the new annotations only.
totalChanges_NewOnly(st) == st.new

\* Step 5 of importAnnotations in main.ts: totalChanges
totalChanges(st) == st.new + st.upd

\* importAnnotations of main.ts from the target document (existed, text),
\* the folder and the settings, with ts the values Date.now() returns: the
\* record of the run, its field `after` the text of the target document
\* when the run ends.  The
\* target document is created when absent and read; the run aborts when the
\* folder is missing; the mapping is built and the lines reconciled; the
\* result is written back when at least one annotation is new or updated.
RunOf(existed, text, fold, level, fs, ts, last) ==
    LET Written(base, after) == [base EXCEPT !.after = after, !.wrote = TRUE]
        Reconciled(base, built, st) ==
            IF built.threw \/ st.threw
            THEN [base EXCEPT !.outcome = "threw", !.mapping = built.mapping]
            ELSE IF totalChanges(st) > 0
            THEN Written([base EXCEPT
                            !.outcome = "done", !.mapping = built.mapping,
                            !.out = st.out, !.origin = st.origin,
                            !.new = st.new, !.upd = st.upd, !.skip = st.skip,
                            !.notice = "imported"],
                         WrittenText(st.out))
            ELSE [base EXCEPT
                    !.outcome = "done", !.mapping = built.mapping,
                    !.out = st.out, !.origin = st.origin,
                    !.new = st.new, !.upd = st.upd, !.skip = st.skip,
                    !.notice = "nochange"]
        Built(base, built) ==
            Reconciled(base, built, Reconcile(base.lines, built.mapping, level))
        Read(base) ==
            IF fold.kind # "folder"
            THEN [base EXCEPT !.outcome = "nofolder", !.notice = "nofolder"]
            ELSE Built(base, BuildMapping(fs, findXfdfFiles(fold.children), ts, EmptyMapping))
        Opened(before) ==
            Read([NoRun EXCEPT !.variant = "main", !.before = before, !.after = before,
                               !.existed = existed,
                               !.lines = Split(before, "\n"), !.folder = fold,
                               !.headerLevel = level, !.prev = Summary(last)])
    IN  Opened(IF existed THEN text ELSE << >>)

\* settings.xfdfFolder, the path of the source folder in the vault.
xfdfFolder == <<"f">>

\* importAnnotations of part_000: as RunOf, but the folder is listed flat,
\* every header opens a section, and the result is always written.
RunOf_000(existed, text, fold, fs, ts, last) ==
    LET Reconciled(base, built, st) ==
            IF built.threw \/ st.threw
            THEN [base EXCEPT !.outcome = "threw", !.mapping = built.mapping]
            ELSE [base EXCEPT
                    !.outcome = "done", !.mapping = built.mapping,
                    !.out = st.out, !.origin = st.origin,
                    !.notice = "imported", !.wrote = TRUE,
                    !.after = WrittenText(st.out)]
        Built(base, built) ==
            Reconciled(base, built, Reconcile_000(base.lines, built.mapping))
        Read(base) ==
            IF fold.kind # "folder"
            THEN [base EXCEPT !.outcome = "nofolder", !.notice = "nofolder"]
            ELSE Built(base, BuildMapping_000(fs, xfdfFolder, ListXfdfFiles_000(fold.children),
                                              ts, EmptyMapping))
        Opened(before) ==
            Read([NoRun EXCEPT !.variant = "000", !.before = before, !.after = before,
                               !.existed = existed,
                               !.lines = Split(before, "\n"), !.folder = fold,
                               !.prev = Summary(last)])
    IN  Opened(IF existed THEN text ELSE << >>)

\* The number of Date.now() calls of a run.
ClockReadsOf(fold) ==
    IF fold.kind # "folder" THEN 0 ELSE ClockReads(findXfdfFiles(fold.children))

ClockReadsOf_000(fold) ==
    IF fold.kind # "folder" THEN 0 ELSE ClockReads(ListXfdfFiles_000(fold.children))

\* One run of importAnnotations of main.ts, as one step.
importAnnotations ==
    \E ts \in TimeSeqs(ClockReadsOf(folder), clock) :
        \E r \in {RunOf(targetExists, content, folder, headerLevel, localFs, ts, run)} :
            /\ targetExists' = TRUE
            /\ content' = r.after
            /\ run' = r
            /\ clock' = IF ts = << >> THEN clock ELSE ts[Len(ts)]
            /\ runs' = runs + 1
            /\ UNCHANGED <<folder, headerLevel, localFs, edits, xfdfString, snapshotLines, calls>>

\* One run of importAnnotations of part_000, as one step.
importAnnotations_000 ==
    \E ts \in TimeSeqs(ClockReadsOf_000(folder), clock) :
        \E r \in {RunOf_000(targetExists, content, folder, localFs, ts, run)} :
            /\ targetExists' = TRUE
            /\ content' = r.after
            /\ run' = r
            /\ clock' = IF ts = << >> THEN clock ELSE ts[Len(ts)]
            /\ runs' = runs + 1
            /\ UNCHANGED <<folder, headerLevel, localFs, edits, xfdfString, snapshotLines, calls>>

(***************************************************************************)
(* The vaults of the model.                                                *)
(***************************************************************************)

\* A visible annotation with rich text: <highlight name=.. page=..> with one span.
Highlight(name, text, page) ==
    [nodeType |-> ELEMENT_NODE, tagName |-> "highlight", flags |-> << >>,
     rich |-> "body", spans |-> <<text>>, rect |-> << >>, subject |-> << >>,
     name |-> name, page |-> page]

XfdfFile(basename, path, nodes) ==
    [kind |-> "file", extension |-> "xfdf", basename |-> basename, path |-> path,
     xfdf |-> [wellFormed |-> TRUE, hasAnnots |-> TRUE, children |-> nodes],
     pdfPath |-> <<"p.pdf">>]

\* The source folder "f": T.xfdf with annotation a (and b when withB), a note
\* that is no XFDF file, and the sub-folder s with U.xfdf (annotation c).
Store(text, page, withB) ==
    [kind |-> "folder",
     children |-> <<
        XfdfFile(<<"T">>, <<"f", "/", "T.xfdf">>,
                 <<Highlight(<<"a">>, text, page)>>
                    \o (IF withB THEN <<Highlight(<<"b">>, <<"x">>, <<"0">>)>> ELSE << >>)),
        [kind |-> "file", extension |-> "md", basename |-> <<"n">>,
         path |-> <<"f", "/", "n.md">>],
        [kind |-> "folder",
         children |-> <<XfdfFile(<<"U">>, <<"f", "/", "s", "/", "U.xfdf">>,
                                 <<Highlight(<<"c">>, <<"x">>, <<"0">>)>>)>>] >>]

\* No XFDF input handed to the parser yet.
NoXfdf == [wellFormed |-> FALSE, hasAnnots |-> FALSE, children |-> << >>]

NotParsed == [parsed |-> FALSE, lines |-> << >>]

Texts == {<<"x">>, <<"y">>}

Pages == {<<"0">>, <<"4">>}

StoreParams == Texts \X Pages \X BOOLEAN

Init ==
    /\ targetExists = FALSE
    /\ content = << >>
    /\ folder = Store(<<"x">>, <<"0">>, FALSE)
    /\ headerLevel \in 1..3
    /\ localFs = TRUE
    /\ clock = 0
    /\ run = NoRun
    /\ runs = 0
    /\ edits = 0
    /\ xfdfString = NoXfdf
    /\ snapshotLines = NotParsed
    /\ calls = NoCalls

Import ==
    /\ runs < MaxRuns
    /\ importAnnotations

\* The annotations change in the PDF editor, which rewrites the XFDF file.
EditSource ==
    /\ edits < MaxEdits
    /\ \E old \in StoreParams, new \in StoreParams :
          /\ folder = Store(old[1], old[2], old[3])
          /\ Cardinality({k \in 1..3 : old[k] # new[k]}) = 1
          /\ folder' = Store(new[1], new[2], new[3])
    /\ edits' = edits + 1
    /\ UNCHANGED <<targetExists, content, headerLevel, localFs, clock, run, runs,
                   xfdfString, snapshotLines, calls>>

TagSlot == <<"[", "tag::", " ", "]">>

\* The user fills the tag slot of the first ManagedLine, or adds a note at
\* the end of the document.
EditTarget ==
    /\ edits < MaxEdits
    /\ targetExists
    /\ \/ /\ Includes(content, TagSlot)
          /\ content' = SubSeq(content, 1, IndexOf(content, TagSlot) + 2)
                            \o <<"k">> \o From(content, IndexOf(content, TagSlot) + 3)
       \/ content' = content \o <<"\n", "n">>
    /\ edits' = edits + 1
    /\ UNCHANGED <<targetExists, folder, headerLevel, localFs, clock, run, runs,
                   xfdfString, snapshotLines, calls>>

Next == Import \/ EditSource \/ EditTarget

Spec == Init /\ [][Next]_vars

(***************************************************************************)
(* The same vault under the plugin of part_000.                            *)
(***************************************************************************)

Init_000 == Init /\ headerLevel = 2

Import_000 ==
    /\ runs < MaxRuns
    /\ importAnnotations_000

Next_000 == Import_000 \/ EditSource \/ EditTarget

Spec_000 == Init_000 /\ [][Next_000]_vars

(***************************************************************************)
(* The reconcilers on the target documents a user may have written: one    *)
(* run of either variant on a document of at most MaxDocLines lines.       *)
(***************************************************************************)

MaxDocLines == 3

\* The annotations of the source folder Store(x, 0, FALSE), as main.ts maps them.
PoolMapping ==
    BuildMapping(TRUE, findXfdfFiles(Store(<<"x">>, <<"0">>, FALSE).children),
                 << >>, EmptyMapping).mapping

IdComment(id) == <<"<", "!", "-", "-", " ">> \o id \o <<" ", "-", "-", ">">>

\* Lines of a target document: headers of the source titles, of the levels
\* 1 to 3, an indented
\* line of the user, a blank line, the ManagedLine of annotation a as main.ts
\* writes it, and lines of the user that carry the ID of a and the ID of c
\* (an annotation of U, and of no annotation that part_000 lists).
LinePool ==
    { <<"#", "#", " ", "T">>, <<"#", "#", " ", "U">>, <<"#", " ", "T">>,
      <<"#", "#", "#", " ", "U">>, <<" ", "n">>, << >>,
      SectionLine(Lookup(PoolMapping, <<"T">>)[1]),
      <<"-", " ", "o", " ">> \o IdComment(<<"a">>),
      <<"-", " ", "o", " ">> \o IdComment(<<"c">>) }

Docs == UNION {[1..n -> LinePool] : n \in 0..MaxDocLines}

Init_Docs ==
    /\ targetExists = TRUE
    /\ \E doc \in Docs : content = Join(doc, <<"\n">>)
    /\ folder = Store(<<"x">>, <<"0">>, FALSE)
    /\ headerLevel \in 1..3
    /\ localFs = TRUE
    /\ clock = 0
    /\ run = NoRun
    /\ runs = 0
    /\ edits = 0
    /\ xfdfString = NoXfdf
    /\ snapshotLines = NotParsed
    /\ calls = NoCalls

ReconcileDoc ==
    /\ runs = 0
    /\ importAnnotations

ReconcileDoc_000 ==
    /\ runs = 0
    /\ importAnnotations_000

Next_Docs == ReconcileDoc \/ ReconcileDoc_000

Spec_Docs == Init_Docs /\ [][Next_Docs]_vars

(***************************************************************************)
(* The parser on the XFDF inputs of at most MaxNodes child nodes.          *)
(***************************************************************************)

MaxNodes == 2

\* Values of the flags attribute: absent, "hidden", "print,hidden", "print".
FlagValues ==
    { << >>, Hidden, <<"p", "r", "i", "n", "t", ",">> \o Hidden,
      <<"p", "r", "i", "n", "t">> }

\* Child nodes of annots: annotation elements (the tag in either case) with
\* rich text, with a contents-richtext that has no body and without rich
\* text, an element that is no annotation, a text node, and an annotation
\* whose text holds a pipe.
NodePool ==
    { [Highlight(<<"a">>, <<"x">>, <<"0">>)
          EXCEPT !.tagName = tag, !.flags = flags, !.rich = rich] :
        tag \in {"highlight", "Text"}, flags \in FlagValues,
        rich \in {"none", "nobody", "body"} }
    \cup { [Highlight(<<"a">>, <<"x">>, <<"0">>)
              EXCEPT !.tagName = "popup", !.flags = flags] : flags \in {<< >>, Hidden} }
    \cup { [Highlight(<< >>, << >>, << >>) EXCEPT !.nodeType = 3, !.tagName = "",
                                                 !.rich = "none", !.spans = << >>] }
    \cup { Highlight(<<"a">>, <<"x", "|", "y">>, <<"0">>) }

XfdfInputs ==
    { [wellFormed |-> w, hasAnnots |-> h, children |-> nodes] :
        w \in BOOLEAN, h \in BOOLEAN,
        nodes \in UNION {[1..n -> NodePool] : n \in 0..MaxNodes} }

Init_Parse ==
    /\ targetExists = FALSE
    /\ content = << >>
    /\ folder = Store(<<"x">>, <<"0">>, FALSE)
    /\ headerLevel = 2
    /\ localFs = TRUE
    /\ clock = 0
    /\ run = NoRun
    /\ runs = 0
    /\ edits = 0
    /\ xfdfString \in XfdfInputs
    /\ snapshotLines = NotParsed
    /\ calls = NoCalls

\* One call of parseXFDFToSnapshot.
Parse ==
    /\ ~snapshotLines.parsed
    /\ snapshotLines' = [parsed |-> TRUE, lines |-> parseXFDFToSnapshot(xfdfString)]
    /\ UNCHANGED <<targetExists, content, folder, headerLevel, localFs, clock, run, runs,
                   edits, xfdfString, calls>>

Next_Parse == Parse

Spec_Parse == Init_Parse /\ [][Next_Parse]_vars

(***************************************************************************)
(* The plugin of main.ts on the source folders it may find: no folder, a   *)
(* file in its place, and folders whose T.xfdf holds two annotations that  *)
(* vary in name, text and page, next to a U.xfdf that does or does not     *)
(* parse.                                                                  *)
(***************************************************************************)

\* Nothing at the path settings.xfdfFolder names, and a file at that path.
MissingFolder == [kind |-> "none", children |-> << >>]

FileAsFolder == [kind |-> "file", children |-> << >>]

\* Page attributes: absent, "0", "4" and "-1".
PageValues == {<< >>, <<"0">>, <<"4">>, <<"-", "1">>}

\* Annotation texts: plain, with a pipe, and with an HTML comment.
TextValues ==
    {<<"x">>, <<"x", "|", "y">>, <<"<", "!", "-", "-", "z", "-", "-", ">">>}

\* The first annotation of T.xfdf: annotation a, or a with another text, or
\* with another page, or without a name.
FirstAnnotations ==
    {Highlight(<<"a">>, text, <<"0">>) : text \in TextValues}
    \cup {Highlight(<<"a">>, <<"x">>, page) : page \in PageValues}
    \cup {Highlight(<< >>, <<"x">>, <<"0">>)}

\* The second annotation of T.xfdf: annotation b, or one without a name.
SecondAnnotations == {Highlight(<<"b">>, <<"x">>, <<"0">>), Highlight(<< >>, <<"x">>, <<"0">>)}

\* The folder with T.xfdf and U.xfdf, in the order U.xfdf, T.xfdf when
\* uFirst; U.xfdf is not well-formed XML unless uParses.
SourceFolder(first, second, uParses, uFirst) ==
    LET t == XfdfFile(<<"T">>, <<"f", "/", "T.xfdf">>, <<first, second>>)
        u == [XfdfFile(<<"U">>, <<"f", "/", "U.xfdf">>,
                       <<Highlight(<<"c">>, <<"x">>, <<"0">>)>>)
                 EXCEPT !.xfdf.wellFormed = uParses]
    IN  [kind |-> "folder", children |-> IF uFirst THEN <<u, t>> ELSE <<t, u>>]

SourceFolders ==
    {MissingFolder, FileAsFolder}
    \cup {SourceFolder(first, second, uParses, uFirst) :
             first \in FirstAnnotations, second \in SecondAnnotations,
             uParses \in BOOLEAN, uFirst \in BOOLEAN}

Init_Sources ==
    /\ targetExists \in BOOLEAN
    /\ content = IF targetExists THEN <<"n">> ELSE << >>
    /\ folder \in SourceFolders
    /\ headerLevel = 2
    /\ localFs = TRUE
    /\ clock = 0
    /\ run = NoRun
    /\ runs = 0
    /\ edits = 0
    /\ xfdfString = NoXfdf
    /\ snapshotLines = NotParsed
    /\ calls = NoCalls

Next_Sources == Import

Spec_Sources == Init_Sources /\ [][Next_Sources]_vars

(***************************************************************************)
(* The reconcilers on target documents whose headers bear the names of     *)
(* properties every JavaScript object inherits.                            *)
(***************************************************************************)

\* The headers "## constructor", "# toString" and "## T", and a line with
\* the ID of a.
TitlePool ==
    { <<"#", "#", " ", "constructor">>, <<"#", " ", "toString">>,
      <<"#", "#", " ", "T">>, <<"-", " ", "o", " ">> \o IdComment(<<"a">>) }

TitleDocs == UNION {[1..n -> TitlePool] : n \in 0..MaxDocLines}

Init_Titles ==
    /\ targetExists = TRUE
    /\ \E doc \in TitleDocs : content = Join(doc, <<"\n">>)
    /\ folder = Store(<<"x">>, <<"0">>, FALSE)
    /\ headerLevel = 2
    /\ localFs = TRUE
    /\ clock = 0
    /\ run = NoRun
    /\ runs = 0
    /\ edits = 0
    /\ xfdfString = NoXfdf
    /\ snapshotLines = NotParsed
    /\ calls = NoCalls

Next_Titles == ReconcileDoc \/ ReconcileDoc_000

Spec_Titles == Init_Titles /\ [][Next_Titles]_vars

(***************************************************************************)
(* The command of main.ts at the grain of its awaits: the callback of the  *)
(* command starts importAnnotations and does not wait for it, and between  *)
(* two awaits of one invocation the callbacks of others run.               *)
(***************************************************************************)

\* The callback of the command 'import-xfdf-annotations': importAnnotations
\* starts, looks the target document up and awaits its creation or its read.
Invoke(c) ==
    /\ runs < MaxRuns
    /\ calls[c].pc = "idle"
    /\ calls' = [calls EXCEPT ![c].pc = IF targetExists THEN "reading" ELSE "creating"]
    /\ runs' = runs + 1
    /\ UNCHANGED <<targetExists, content, folder, headerLevel, localFs, clock, run, edits,
                   xfdfString, snapshotLines>>

\* vault.create(targetFile, '') settles: the empty target document exists;
\* when another invocation created it meanwhile, the call is rejected, which
\* ends the invocation.
Created(c) ==
    /\ calls[c].pc = "creating"
    /\ IF targetExists
       THEN /\ calls' = [calls EXCEPT ![c] = Idle]
            /\ UNCHANGED <<targetExists, content>>
       ELSE /\ calls' = [calls EXCEPT ![c].pc = "reading"]
            /\ targetExists' = TRUE
            /\ content' = << >>
    /\ UNCHANGED <<folder, headerLevel, localFs, clock, run, runs, edits,
                   xfdfString, snapshotLines>>

\* vault.read(targetFileObj) settles: originalLines are those of the
\* document as it is now.
ReadTarget(c) ==
    /\ calls[c].pc = "reading"
    /\ calls' = [calls EXCEPT ![c] = [pc |-> "sources", before |-> content]]
    /\ UNCHANGED <<targetExists, content, folder, headerLevel, localFs, clock, run, runs,
                   edits, xfdfString, snapshotLines>>

\* The rest of the invocation: the sources are read, the lines it read are
\* reconciled and, with changes, written over the document.
Finish(c) ==
    /\ calls[c].pc = "sources"
    /\ \E ts \in TimeSeqs(ClockReadsOf(folder), clock) :
          \E r \in {RunOf(TRUE, calls[c].before, folder, headerLevel, localFs, ts, run)} :
              /\ content' = IF r.wrote THEN r.after ELSE content
              /\ run' = r
              /\ clock' = IF ts = << >> THEN clock ELSE ts[Len(ts)]
    /\ calls' = [calls EXCEPT ![c] = Idle]
    /\ UNCHANGED <<targetExists, folder, headerLevel, localFs, runs, edits,
                   xfdfString, snapshotLines>>

Init_Async ==
    /\ targetExists \in BOOLEAN
    /\ content \in {<< >>, <<"n">>}
    /\ targetExists = FALSE => content = << >>
    /\ folder = Store(<<"x">>, <<"0">>, FALSE)
    /\ headerLevel \in 1..3
    /\ localFs = TRUE
    /\ clock = 0
    /\ run = NoRun
    /\ runs = 0
    /\ edits = 0
    /\ xfdfString = NoXfdf
    /\ snapshotLines = NotParsed
    /\ calls = NoCalls

Next_Async ==
    \E c \in 1..MaxCalls : Invoke(c) \/ Created(c) \/ ReadTarget(c) \/ Finish(c)

Spec_Async == Init_Async /\ [][Next_Async]_vars

(***************************************************************************)
(* Properties of a run, stated on its record.                              *)
(***************************************************************************)

Done == run.outcome = "done"

DoneMain == run.outcome = "done" /\ run.variant = "main"

Done_000 == run.outcome = "done" /\ run.variant = "000"

\* The run follows a finished run of the same variant, with the same sources
\* and settings, and the target document was not edited in between.
Repeated ==
    /\ run.prev.outcome = "done"
    /\ run.prev.variant = run.variant
    /\ run.prev.folder = run.folder
    /\ run.prev.headerLevel = run.headerLevel
    /\ run.existed
    /\ run.before = run.prev.after

\* Every annotation element of the source folder carries a name.
AllNamed(fold) ==
    \A file \in Range(findXfdfFiles(fold.children)) :
        \A node \in Range(file.xfdf.children) : node.name # << >>

\* The header that opens the section line j of `lines` lies in, 0 when it
\* lies in none; a header that opens a section lies in its own section.  In
\* main.ts a level-2 header opens a section and a header of level 1 or 2 ends
\* one; in part_000 every header opens a section unless it lies deeper than
\* the header of the section it is in.
RECURSIVE SectionHeader(_, _, _)
SectionHeader(variant, lines, j) ==
    IF j = 0 THEN 0
    ELSE LET prev  == SectionHeader(variant, lines, j - 1)
             level == HeaderLevel(lines[j])
         IN  IF variant = "main"
             THEN (IF level = 2 THEN j ELSE IF level = 1 THEN 0 ELSE prev)
             ELSE (IF level >= 1 /\ (prev = 0 \/ level <= HeaderLevel(lines[prev]))
                   THEN j ELSE prev)

\* Line j of the original lines is a line of a section, not its header.
InSection(j) == SectionHeader(run.variant, run.lines, j) \notin {0, j}

\* The annotations the mapping holds for the title of the section of line j.
SectionAnnotations(j) ==
    Lookup(run.mapping, HeaderTitle(run.lines[SectionHeader(run.variant, run.lines, j)]))

\* Line j is a line of a section that carries the ID of an annotation of the
\* section's title.
MatchedLine(j) ==
    /\ InSection(j)
    /\ getIdFromLine(run.lines[j]) # << >>
    /\ HasId(SectionAnnotations(j), getIdFromLine(run.lines[j]))

\* The positions of the reconciled lines that stand for an original line,
\* and those the reconciler added.
Kept == {k \in 1..Len(run.out) : run.origin[k] # 0}

Added == {k \in 1..Len(run.out) : run.origin[k] = 0}

IsOriginal(o) == o # 0

\* The titles of the header lines, of any level, of the original lines.
HeaderTitles ==
    {HeaderTitle(run.lines[j]) : j \in {i \in 1..Len(run.lines) : HeaderLevel(run.lines[i]) >= 1}}

\* The number of annotations of the mapping.
RECURSIVE AnnotationCount(_)
AnnotationCount(mapping) ==
    IF mapping = << >> THEN 0 ELSE Len(mapping[1].annots) + AnnotationCount(Tail(mapping))

(***************************************************************************)
(* C1..C2: repeated runs of main.ts.                                       *)
(***************************************************************************)

\* C1: a run of main.ts that follows a finished run with identical sources,
\* all annotations named, and no edit in between, leaves the target document
\* as the first run left it and counts no new and no updated annotation.
C1_Idempotent ==
    (DoneMain /\ Repeated /\ AllNamed(run.folder))
        => (run.after = run.before /\ run.new = 0 /\ run.upd = 0)

\* Between the run before and this run only the text of annotation a of T
\* changed in the sources.
TextOfAChanged ==
    \E old \in StoreParams, new \in StoreParams :
        /\ run.prev.folder = Store(old[1], old[2], old[3])
        /\ run.folder = Store(new[1], new[2], new[3])
        /\ old[1] # new[1] /\ old[2] = new[2] /\ old[3] = new[3]

\* The reconciled positions whose line differs from the original line it
\* stands for.
Rewritten == {k \in Kept : run.out[k] # run.lines[run.origin[k]]}

\* C2: when the target document, left by a finished run of main.ts under the
\* level-2 header of T, holds the line of annotation a and only the text of a
\* changed in the sources, the next run rewrites exactly that line to the
\* freshly rendered line of a and counts exactly one update.
C2_TextChangeUpdates ==
    (/\ DoneMain /\ run.headerLevel = 2
     /\ run.prev.outcome = "done" /\ run.prev.variant = "main"
     /\ run.existed /\ run.before = run.prev.after
     /\ TextOfAChanged
     /\ \E j \in 1..Len(run.lines) :
            MatchedLine(j) /\ getIdFromLine(run.lines[j]) = <<"a">>)
        => /\ run.upd = 1
           /\ \E k \in Kept :
                 /\ getIdFromLine(run.lines[run.origin[k]]) = <<"a">>
                 /\ run.out[k] = SectionLine(Find(Lookup(run.mapping, <<"T">>), <<"a">>))
                 /\ Rewritten = {k}

(***************************************************************************)
(* C3..C5: one reconciliation of any target document.                      *)
(***************************************************************************)

\* An added line stands at the end of the document, or at the end of a
\* section: the next original line is not a line of the section of the
\* original line before it.
AtEndOfSection(k) ==
    \/ \A k2 \in (k + 1)..Len(run.out) : run.origin[k2] = 0
    \/ \E k2 \in (k + 1)..Len(run.out) :
          /\ run.origin[k2] > 1
          /\ \A k3 \in (k + 1)..(k2 - 1) : run.origin[k3] = 0
          /\ SectionHeader(run.variant, run.lines, run.origin[k2] - 1) # 0
          /\ SectionHeader(run.variant, run.lines, run.origin[k2])
                # SectionHeader(run.variant, run.lines, run.origin[k2] - 1)

\* C3: the reconciled lines of either variant hold every original line once
\* and in order; an original line that is no line of a section carrying the
\* ID of an annotation of the section's title stands verbatim; and lines are
\* added only at the end of a section or of the document.
C3_Preserved ==
    Done =>
        /\ SelectSeq(run.origin, IsOriginal) = [j \in 1..Len(run.lines) |-> j]
        /\ \A k \in Kept : ~MatchedLine(run.origin[k]) => run.out[k] = run.lines[run.origin[k]]
        /\ \A k \in Added : AtEndOfSection(k)

\* C3 witness: a run replaced a matched line, kept the user's indented line
\* in the same section, and added lines.
C3_Witness ==
    /\ Done
    /\ Rewritten # {}
    /\ \E k \in Kept : InSection(run.origin[k]) /\ run.out[k] = <<" ", "n">>
    /\ Added # {}

\* The reconciled positions that carry the ID of an annotation.
Carrying(id) == {k \in 1..Len(run.out) : getIdFromLine(run.out[k]) = id}

\* The title of the nearest header line at or before position k of the
\* reconciled lines, << >> when there is none.
RECURSIVE TitleAbove(_)
TitleAbove(k) ==
    IF k = 0 THEN << >>
    ELSE IF HeaderLevel(run.out[k]) >= 1 THEN HeaderTitle(run.out[k])
    ELSE TitleAbove(k - 1)

\* C4: after a reconciliation by main.ts every annotation of the mapping is
\* carried by exactly one reconciled line, which lies under the header of
\* the annotation's own document title.
C4_ExactlyOnce ==
    DoneMain =>
        \A m \in 1..Len(run.mapping) :
            \A a \in 1..Len(run.mapping[m].annots) :
                /\ Cardinality(Carrying(run.mapping[m].annots[a].uniqueId)) = 1
                /\ \A k \in Carrying(run.mapping[m].annots[a].uniqueId) :
                      TitleAbove(k) = run.mapping[m].title

\* Line j of the original lines is a line of a section and carries an ID that
\* no annotation of the section's title has.
StaleLine(j) ==
    /\ InSection(j)
    /\ getIdFromLine(run.lines[j]) # << >>
    /\ ~HasId(SectionAnnotations(j), getIdFromLine(run.lines[j]))

\* C5: a line of a section whose ID matches no annotation of the section's
\* title is emitted unchanged at its position, by either variant.
C5_NoDeletion ==
    Done =>
        \A j \in 1..Len(run.lines) :
            StaleLine(j) =>
                \E k \in Kept :
                    /\ run.origin[k] = j
                    /\ run.out[k] = run.lines[j]
                    /\ \A k2 \in Kept : (k2 < k) <=> (run.origin[k2] < j)

\* C5 witness: main.ts ran on a document with the ID of c in the section of T.
C5_Witness ==
    /\ DoneMain
    /\ \E j \in 1..Len(run.lines) :
          StaleLine(j) /\ getIdFromLine(run.lines[j]) = <<"c">>

(***************************************************************************)
(* C6..C8: orphan sections and the write-back of main.ts.                  *)
(***************************************************************************)

Hashes(n) == [k \in 1..n |-> "#"]

\* Position h of the reconciled lines opens a section added for the entry e
\* of the mapping: after all original lines, the header of run.headerLevel
\* marks and the title, then one freshly rendered line per annotation of e,
\* in order, and no further line of an annotation.
AppendedSection(h, e) ==
    /\ h + Len(e.annots) <= Len(run.out)
    /\ \A k \in Kept : k < h
    /\ run.out[h] = <<"\n">> \o Hashes(run.headerLevel) \o <<" ">> \o e.title \o <<"\n">>
    /\ \A a \in 1..Len(e.annots) :
          /\ getIdFromLine(run.out[h + a]) = e.annots[a].uniqueId
          /\ MatchesAt(run.out[h + a], 1,
                       <<"-", " ">> \o e.annots[a].obsidianLink \o <<" ">> \o CommentOpen)
    /\ \/ h + Len(e.annots) = Len(run.out)
       \/ getIdFromLine(run.out[h + Len(e.annots) + 1]) = << >>

\* The entries of the mapping whose title no header of the original lines has.
Unheaded == {m \in 1..Len(run.mapping) : run.mapping[m].title \notin HeaderTitles}

\* C6: for every title of the mapping that no header of the target document
\* has, main.ts appends after all original lines a section with a header of
\* exactly headerLevel marks and one freshly rendered line per annotation;
\* these annotations are counted as new, and when no title has a header none
\* is counted as updated or unchanged.
C6_OrphanSection ==
    DoneMain =>
        /\ \A m \in Unheaded :
              \E h \in 1..Len(run.out) : AppendedSection(h, run.mapping[m])
        /\ \A m \in Unheaded : run.new >= Len(run.mapping[m].annots)
        /\ Unheaded = 1..Len(run.mapping)
              => /\ run.new = AnnotationCount(run.mapping)
                 /\ run.upd = 0
                 /\ run.skip = 0

\* C6 witness: main.ts, set to level 3, ran on a document that has the header
\* of T but none of U.
C6_Witness ==
    /\ DoneMain
    /\ run.headerLevel = 3
    /\ HeaderTitles = {<<"T">>}
    /\ \E m \in Unheaded : run.mapping[m].title = <<"U">>

\* C7: main.ts appends a header for a document title only if the target
\* document has no header line of level 1..3 with that title.
C7_OrphanOnlyWithoutHeader ==
    DoneMain =>
        \A h \in Added :
            HeaderLevel(run.out[h]) >= 1 =>
                \A j \in 1..Len(run.lines) :
                    HeaderLevel(run.lines[j]) \in 1..3
                        => HeaderTitle(run.lines[j]) # HeaderTitle(run.out[h])

\* C8: main.ts writes the target document exactly when new + updated > 0,
\* and then the reconciled lines; with no change the document stays as it
\* was and the notice says so; reconciled lines that differ from the
\* original lines are always written.
C8_ConditionalWrite ==
    DoneMain =>
        /\ run.wrote <=> (run.new + run.upd > 0)
        /\ run.wrote => run.after = Trim(Join(run.out, <<"\n">>))
        /\ (run.new + run.upd = 0) => (run.after = run.before /\ run.notice = "nochange")
        /\ (run.out # run.lines) => (run.new + run.upd > 0)

\* C8 witness: a run that updated a line and added none wrote the document.
C8_Witness ==
    /\ DoneMain
    /\ run.upd > 0 /\ run.new = 0
    /\ run.wrote /\ run.after # run.before

(***************************************************************************)
(* C9: the comparison of part_000.                                         *)
(***************************************************************************)

\* Line j was written for the annotation as it is rendered now: it starts
\* with the rendered link and the ID comment of the section format.
RenderedFor(j, annot) ==
    MatchesAt(run.lines[j], 1,
              <<"-", " ">> \o annot.obsidianLink \o <<" ">> \o CommentOpen
                 \o annot.uniqueId \o <<" ">> \o CommentClose)

\* C9: part_000 emits verbatim, with the text the user put in the tag slot, a
\* section line that carries the ID of an annotation of the section's title
\* and was written for the link as it is rendered now.
C9_UnchangedKept ==
    Done_000 =>
        \A k \in Kept :
            (/\ MatchedLine(run.origin[k])
             /\ RenderedFor(run.origin[k],
                            Find(SectionAnnotations(run.origin[k]),
                                 getIdFromLine(run.lines[run.origin[k]]))))
                => run.out[k] = run.lines[run.origin[k]]

(***************************************************************************)
(* C10: the parser.                                                        *)
(***************************************************************************)

\* An element whose flags attribute contains "hidden".
HiddenElement(node) == node.nodeType = ELEMENT_NODE /\ Includes(node.flags, Hidden)

NotHiddenElement(node) == ~HiddenElement(node)

\* C10: parseXFDFToSnapshot emits no line for an element whose flags contain
\* "hidden": the snapshot is that of the input without these elements, and
\* has at most one line per other child node.
C10_HiddenExcluded ==
    snapshotLines.parsed =>
        /\ snapshotLines.lines =
              parseXFDFToSnapshot(
                 [xfdfString EXCEPT !.children = SelectSeq(@, NotHiddenElement)])
        /\ Len(snapshotLines.lines) <= Len(SelectSeq(xfdfString.children, NotHiddenElement))

\* C10 witness: the parser ran on a hidden annotation with rich text next to
\* a visible one, and emitted the one line.
C10_Witness ==
    /\ snapshotLines.parsed
    /\ Len(snapshotLines.lines) = 1
    /\ Len(xfdfString.children) = 2
    /\ \E i \in 1..2 :
          /\ HiddenElement(xfdfString.children[i])
          /\ xfdfString.children[i].rich = "body"
          /\ ToLowerCase(xfdfString.children[i].tagName) \in tagNames

(***************************************************************************)
(* C11: annotations without rich text.                                     *)
(***************************************************************************)

\* An annotation element of a recognised type that is not hidden.
Recognized(node) ==
    /\ node.nodeType = ELEMENT_NODE
    /\ node.tagName \in {"highlight", "Highlight", "HIGHLIGHT", "text", "Text", "ink", "Ink"}
    /\ ~Includes(node.flags, Hidden)

HasRichText(node) == Recognized(node) /\ node.rich # "none"

\* The input was parsed as XML and holds an annots element.
ParsedAnnots == snapshotLines.parsed /\ xfdfString.wellFormed /\ xfdfString.hasAnnots

\* C11: of the recognised, visible annotation elements exactly those with a
\* contents-richtext descendant are emitted, in document order, one line
\* each; the line of one whose contents-richtext has no body has the empty
\* text.
C11_RichTextOnly ==
    ParsedAnnots =>
        /\ Len(snapshotLines.lines) = Len(SelectSeq(xfdfString.children, HasRichText))
        /\ \A k \in 1..Len(snapshotLines.lines) :
              SelectSeq(xfdfString.children, HasRichText)[k].rich = "nobody"
                 => /\ Len(Split(snapshotLines.lines[k], "|")) = 7
                    /\ Split(snapshotLines.lines[k], "|")[2] = << >>

\* C11 witness: the parser emitted a line with empty text for an annotation
\* whose contents-richtext has no body, and none for one without rich text.
C11_Witness ==
    /\ ParsedAnnots
    /\ Len(xfdfString.children) = 2
    /\ Recognized(xfdfString.children[1]) /\ xfdfString.children[1].rich = "none"
    /\ Recognized(xfdfString.children[2]) /\ xfdfString.children[2].rich = "nobody"
    /\ Len(snapshotLines.lines) = 1
    /\ Split(snapshotLines.lines[1], "|")[2] = << >>

(***************************************************************************)
(* C12..C14: the sources of a run of main.ts.                              *)
(***************************************************************************)

\* The XFDF files of the run's source folder, in the order of the run.
SourceFiles ==
    IF run.folder.kind = "folder" THEN findXfdfFiles(run.folder.children) ELSE << >>

\* The page a page attribute stands for: its integer value plus 1, and 1
\* when the attribute is absent.
PagePlusOne(page) ==
    IF page = << >> THEN <<"1">> ELSE NumToString(ParseInt(page).val + 1)

\* The record of the mapping for child k of a file whose children are all
\* emitted.
RecordOf(file, k) == Lookup(run.mapping, file.basename)[k]

\* C12: every annotation of a finished run is rendered with the page of its
\* page attribute plus 1, and with page 1 when it has no page attribute.
C12_PagePlusOne ==
    DoneMain =>
        \A f \in 1..Len(SourceFiles) :
            SourceFiles[f].xfdf.wellFormed =>
                \A k \in 1..Len(SourceFiles[f].xfdf.children) :
                    /\ RecordOf(SourceFiles[f], k).page =
                          PagePlusOne(SourceFiles[f].xfdf.children[k].page)
                    /\ Includes(RecordOf(SourceFiles[f], k).obsidianLink,
                                <<"DI">> \o PagePlusOne(SourceFiles[f].xfdf.children[k].page)
                                    \o <<"YE">>)

\* C13: a run that finds no folder at settings.xfdfFolder leaves the target
\* document as it was: not modified, and not created when it did not exist.
C13_NoFolderNoWrite ==
    run.outcome = "nofolder" =>
        /\ ~run.wrote
        /\ run.notice = "nofolder"
        /\ content = run.before
        /\ targetExists = run.existed

\* The text of the target document holds a line rendered for the annotation.
InDocument(annot) == Includes(content, SectionLine(annot)) \/ Includes(content, OrphanLine(annot))

\* C14: a run over a folder finishes; an XFDF file whose parse raises adds
\* no annotation to the mapping, and every annotation element of every other
\* file is in the mapping, under the title of its file; the lines are
\* reconciled and, when an annotation is new or updated, written, and the
\* first run writes a line for every annotation of the mapping.
C14_FailureIsolated ==
    (run.variant = "main" /\ run.folder.kind = "folder") =>
        /\ run.outcome = "done"
        /\ content = IF run.new + run.upd > 0 THEN WrittenText(run.out) ELSE run.before
        /\ \A f \in 1..Len(SourceFiles) :
              IF SourceFiles[f].xfdf.wellFormed
              THEN /\ Len(Lookup(run.mapping, SourceFiles[f].basename))
                         = Len(SourceFiles[f].xfdf.children)
                   /\ run.prev.outcome = "none" =>
                         \A k \in 1..Len(SourceFiles[f].xfdf.children) :
                             InDocument(RecordOf(SourceFiles[f], k))
              ELSE ~HasKey(run.mapping, SourceFiles[f].basename)

\* C14 witness: a finished run whose first file, U.xfdf, did not parse, and
\* whose mapping holds the two annotations of T.xfdf and nothing else.
C14_Witness ==
    /\ DoneMain
    /\ Len(SourceFiles) = 2
    /\ ~SourceFiles[1].xfdf.wellFormed
    /\ Len(run.mapping) = 1
    /\ Len(Lookup(run.mapping, <<"T">>)) = 2
    /\ run.wrote

(***************************************************************************)
(* C16..C17: the sections of a target document.                            *)
(***************************************************************************)

\* The original lines that open a section.
Openers == {h \in 1..Len(run.lines) : SectionHeader(run.variant, run.lines, h) = h}

\* The reconciled positions of the original lines of the section opened by
\* line h, the header included.
SectionKept(h) ==
    {k \in Kept : SectionHeader(run.variant, run.lines, run.origin[k]) = h}

\* The reconciled positions of the lines added at the end of the section
\* opened by line h: those that follow its last original line directly, up
\* to the next original line or the next added header.
SectionAdded(h) ==
    {k \in Added :
        /\ k > Greatest(SectionKept(h))
        /\ \A k2 \in (Greatest(SectionKept(h)) + 1)..k :
              run.origin[k2] = 0 /\ HeaderLevel(run.out[k2]) = 0}

\* C16: at the end of a section either variant appends a line for an
\* annotation of the section's title exactly when no original line of this
\* section carries its ID, whatever lines before the section carry.
C16_SectionScope ==
    Done =>
        \A h \in Openers :
            \A a \in 1..Len(Lookup(run.mapping, HeaderTitle(run.lines[h]))) :
                (\E k \in SectionAdded(h) :
                    getIdFromLine(run.out[k])
                       = Lookup(run.mapping, HeaderTitle(run.lines[h]))[a].uniqueId)
                <=>
                (\A k \in SectionKept(h) :
                    getIdFromLine(run.out[k])
                       # Lookup(run.mapping, HeaderTitle(run.lines[h]))[a].uniqueId)

\* The last line of the section a level-2 header at line h opens in main.ts:
\* the line before the next header of level 1 or 2, or the last line.
ExtentEnd(h) ==
    Greatest({e \in h..Len(run.lines) :
                 \A j \in (h + 1)..e : HeaderLevel(run.lines[j]) \notin {1, 2}})

\* The reconciled position of the original line j.
PositionOf(j) == CHOOSE k \in Kept : run.origin[k] = j

\* What main.ts emits for line j of the section with these annotations.
SectionOutput(j, annots) ==
    IF getIdFromLine(run.lines[j]) # << >> /\ HasId(annots, getIdFromLine(run.lines[j]))
          /\ hasPdfLinkChanged(run.lines[j], Find(annots, getIdFromLine(run.lines[j])))
    THEN SectionLine(Find(annots, getIdFromLine(run.lines[j])))
    ELSE run.lines[j]

\* The original lines that lie in the section of some level-2 header.
InExtent ==
    {j \in 1..Len(run.lines) :
        \E h \in 1..(j - 1) : HeaderLevel(run.lines[h]) = 2 /\ j <= ExtentEnd(h)}

\* C17: in main.ts the section of a level-2 header runs up to the line before
\* the next header of level 1 or 2: its lines, those after a deeper header
\* included, are reconciled with the annotations of the header's title, the
\* lines added after its last line, before the next original line or the
\* separator of the orphan sections, are rendered for that title, and the header that ends it is emitted as it is and, when of
\* level 2, opens its own section; lines in no section stand as they are.
C17_SectionExtent ==
    DoneMain =>
        /\ \A h \in 1..Len(run.lines) :
              HeaderLevel(run.lines[h]) = 2 =>
                 /\ run.out[PositionOf(h)] = run.lines[h]
                 /\ \A j \in (h + 1)..ExtentEnd(h) :
                       run.out[PositionOf(j)]
                          = SectionOutput(j, Lookup(run.mapping, HeaderTitle(run.lines[h])))
                 /\ \A k \in PositionOf(h)..PositionOf(ExtentEnd(h)) : k \in Kept
                 /\ \A k \in Added :
                       (/\ k > PositionOf(ExtentEnd(h))
                        /\ \A k2 \in (PositionOf(ExtentEnd(h)) + 1)..k :
                              /\ run.origin[k2] = 0
                              /\ HeaderLevel(run.out[k2]) = 0
                              /\ run.out[k2] # Separator)
                          => \E a \in 1..Len(Lookup(run.mapping, HeaderTitle(run.lines[h]))) :
                                run.out[k] = SectionLine(
                                    Lookup(run.mapping, HeaderTitle(run.lines[h]))[a])
        /\ \A j \in 1..Len(run.lines) :
              j \notin InExtent => run.out[PositionOf(j)] = run.lines[j]

\* C17 witness: main.ts ran on the section of T with a level-3 header and,
\* after it, a line with the ID of a, which it rewrote as a line of T.
C17_Witness ==
    /\ DoneMain
    /\ Len(run.lines) = 3
    /\ run.lines[1] = <<"#", "#", " ", "T">>
    /\ run.lines[2] = <<"#", "#", "#", " ", "U">>
    /\ run.lines[3] = <<"-", " ", "o", " ">> \o IdComment(<<"a">>)
    /\ run.out[2] = run.lines[2]
    /\ run.out[3] = SectionLine(Lookup(run.mapping, <<"T">>)[1])

\* A level-2 header ended the section of T and opened the section of U, which
\* received the line of c.
C17_WitnessNext ==
    /\ DoneMain
    /\ run.lines = << <<"#", "#", " ", "T">>, <<"#", "#", " ", "U">> >>
    /\ Len(run.out) = 4
    /\ run.out[3] = run.lines[2]
    /\ getIdFromLine(run.out[4]) = <<"c">>

(***************************************************************************)
(* C18..C19: the IDs of the annotations of a run.                          *)
(***************************************************************************)

\* The annotation records of the run's mapping, as <<entry, index>> pairs.
Records ==
    {p \in (1..Len(run.mapping)) \X (1..AnnotationCount(run.mapping)) :
        p[2] <= Len(run.mapping[p[1]].annots)}

RecordAt(p) == run.mapping[p[1]].annots[p[2]]

\* C18: getIdFromLine returns the uniqueId of an annotation from the line
\* rendered for it, in the format of a section line and in that of a line
\* of an orphan section.
C18_IdRoundTrip ==
    DoneMain =>
        \A p \in Records :
            /\ getIdFromLine(SectionLine(RecordAt(p))) = RecordAt(p).uniqueId
            /\ getIdFromLine(OrphanLine(RecordAt(p))) = RecordAt(p).uniqueId

\* C19: no two annotation records of the mapping of a run have the same
\* uniqueId.
C19_UniqueIds ==
    DoneMain =>
        \A p \in Records, q \in Records :
            p # q => RecordAt(p).uniqueId # RecordAt(q).uniqueId

(***************************************************************************)
(* C20: the snapshot line of an annotation.                                *)
(***************************************************************************)

\* The fields of the record the parser emits for an annotation element.
RecordFields(node) ==
    << <<Capitalize(ToLowerCase(node.tagName))>>, getTextContent(node).text, node.rect,
       <<"undefined">>, node.subject, node.name, PageField(node.page) >>

\* C20: the snapshot line of every emitted annotation splits on "|" into
\* exactly the seven fields of its record: type, contents, rect, the literal
\* "undefined", subject, name and page.
C20_SnapshotRoundTrip ==
    ParsedAnnots =>
        \A k \in 1..Len(snapshotLines.lines) :
            Split(snapshotLines.lines[k], "|")
               = RecordFields(SelectSeq(xfdfString.children, HasRichText)[k])

(***************************************************************************)
(* C15: invocations of the command.                                        *)
(***************************************************************************)

\* C15: while an invocation of importAnnotations is between its read of the
\* target document and its write-back or return, no other invocation is in
\* progress.
C15_Serialized ==
    \A c \in 1..MaxCalls, d \in 1..MaxCalls :
        (c # d /\ calls[c].pc = "sources") => calls[d].pc = "idle"

(***************************************************************************)
(* C21: the order of the lines a run adds.                                 *)
(***************************************************************************)

\* The lines main.ts can render for an annotation element of a file, in the
\* format of a section and in that of an orphan section.
ElementLines(file, node) ==
    UNION { { SectionLine(Annotation(localFs, file, SnapshotOf(node)[1], now)),
              OrphanLine(Annotation(localFs, file, SnapshotOf(node)[1], now)) } :
            now \in 0..MaxClock }

\* The positions of the lines the run added for an element of the file.
AddedFor(file) ==
    {k \in Added :
        \E j \in 1..Len(file.xfdf.children) :
            run.out[k] \in ElementLines(file, file.xfdf.children[j])}

\* C21: the lines a run of main.ts adds for the annotation elements of one
\* XFDF file stand in the order of the elements: each added line can be
\* given the element it renders so that a later line has a later element.
C21_InsertionOrder ==
    DoneMain =>
        \A f \in 1..Len(SourceFiles) :
            SourceFiles[f].xfdf.wellFormed =>
                \E element \in [AddedFor(SourceFiles[f])
                                   -> 1..Len(SourceFiles[f].xfdf.children)] :
                    /\ \A k \in AddedFor(SourceFiles[f]) :
                          run.out[k] \in ElementLines(SourceFiles[f],
                                            SourceFiles[f].xfdf.children[element[k]])
                    /\ \A k1, k2 \in AddedFor(SourceFiles[f]) :
                          k1 < k2 => element[k1] < element[k2]

\* C21 witness: a run appended, at the end of the existing section of T, two
\* different lines for the two elements of T.xfdf.
C21_Witness ==
    /\ DoneMain
    /\ run.prev.outcome = "done"
    /\ \E f \in 1..Len(SourceFiles) :
          /\ SourceFiles[f].basename = <<"T">>
          /\ \E k1, k2 \in AddedFor(SourceFiles[f]) :
                /\ k1 < k2
                /\ run.out[k1] # run.out[k2]
                /\ run.out[k1] \in ElementLines(SourceFiles[f], SourceFiles[f].xfdf.children[1])
                /\ run.out[k2] \in ElementLines(SourceFiles[f], SourceFiles[f].xfdf.children[2])
                /\ \E k \in Kept : k > k2

(***************************************************************************)
(* C22: the text a run writes.                                             *)
(***************************************************************************)

\* C22: the text either variant writes, read back and split on newlines,
\* is the sequence of the reconciled lines: the write drops and alters no
\* line, a leading or trailing blank line included.
C22_LineFaithful ==
    (Done /\ run.wrote) =>
        Split(run.after, "\n") = Split(Join(run.out, <<"\n">>), "\n")

(***************************************************************************)
(* C23: overlapping invocations of the command.                            *)
(***************************************************************************)

\* The text of the target document after two runs of main.ts, one after the
\* other, from the text d0, for every value Date.now() can return.
SequentialDocs(d0) ==
    UNION { { RunOf(TRUE,
                    RunOf(TRUE, d0, folder, headerLevel, localFs, ts1, NoRun).after,
                    folder, headerLevel, localFs, ts2, NoRun).after :
              ts2 \in TimeSeqs(ClockReadsOf(folder),
                               IF ts1 = << >> THEN 0 ELSE ts1[Len(ts1)]) } :
            ts1 \in TimeSeqs(ClockReadsOf(folder), 0) }

\* C23: when two invocations of the command have ended, however their
\* steps were interleaved, the target document is the one two runs in a
\* row produce from the document the first of them read.
C23_Serializable ==
    (runs = 2 /\ calls = NoCalls /\ run.outcome = "done") =>
        content \in SequentialDocs(IF run.prev.outcome = "done"
                                   THEN run.prev.before ELSE run.before)

(***************************************************************************)
(* C24: the pass over the original lines.                                  *)
(***************************************************************************)

\* C24: the reconciliation of either variant ends without raising, and
\* consumes every original line exactly once, in order.
C24_SinglePass ==
    run.outcome # "none" =>
        /\ run.outcome = "done"
        /\ SelectSeq(run.origin, IsOriginal) = [j \in 1..Len(run.lines) |-> j]

====
